---- MODULE Spec2Model ----
(***************************************************************************)
(* State-machine model of the Layout singleton (render/layout scheduling,  *)
(* touch routing), of the RenderContextManager (scroll-surface pool and    *)
(* primitive collections) and of the Image component's loads.              *)
(***************************************************************************)
EXTENDS Integers, Sequences, FiniteSets, TLC

VARIABLES
  isDirty,          \* Layout.isDirty (needsLayout)
  isNeedRepaint,    \* Layout.isNeedRepaint (needsRepaint)
  hasEventHandler,  \* Layout.hasEventHandler
  children,         \* Layout.children: <<>> or <<t>>, t an index of Trees
  renderContext,    \* Layout.renderContext: "null" or "ctx"
  viewport,         \* Layout.viewport
  hasViewPortSet,   \* Layout.hasViewPortSet
  renderport,       \* Layout.renderport
  realLayoutBox,    \* realLayoutBox of the Layout (node 0) and of the tree's nodes
  state,            \* Layout.state
  touchMsg,         \* Layout.touchMsg
  bindCount,        \* host: how many times a handler set was registered
  clock,            \* host: time stamp of the latest touch recorded in touchMsg
  trace,            \* history: what the latest operation did
  canvasPool,       \* renderContextManager.js: canvasPool
  scrollCanvas,     \* per manager: its scrollCanvas field
  created,          \* host: number of canvases createCanvas() has made
  surface,          \* per manager: how its scroll surface was got and treated
  glRects,          \* per manager: glRects, the main primitive collection
  scrollGlrects,    \* per manager: scrollGlrects
  hasSetup,         \* per manager: hasSetup
  glRect,           \* per manager: node.glRect of each node of its layout
  rectCount,        \* per manager: number of RenderContext objects made
  mainMade,         \* history: primitives made outside the scroll region
  img,              \* Image.img
  imgsrc,           \* Image.imgsrc
  isDestroyed,      \* Image.isDestroyed
  hasSrcSetter,     \* Image: the src accessor property is still defined
  pending,          \* imageManager: loads requested and not yet completed
  cached            \* imageManager: sources already loaded

vars == <<isDirty, isNeedRepaint, hasEventHandler, children, renderContext,
          viewport, hasViewPortSet, renderport, realLayoutBox, state, touchMsg,
          bindCount, clock, trace, canvasPool, scrollCanvas, created, surface,
          glRects, scrollGlrects, hasSetup, glRect, rectCount, mainMade,
          img, imgsrc, isDestroyed, hasSrcSetter, pending, cached>>

layoutVars == <<isDirty, isNeedRepaint, hasEventHandler, children, renderContext,
                viewport, hasViewPortSet, renderport, realLayoutBox, state,
                bindCount>>

touchVars == <<touchMsg, clock>>

poolVars == <<canvasPool, scrollCanvas, created, surface>>

rectVars == <<glRects, scrollGlrects, hasSetup, glRect, rectCount, mainMade>>

imageVars == <<img, imgsrc, isDestroyed, hasSrcSetter, pending, cached>>

(***************************************************************************)
(* Bounds.                                                                 *)
(***************************************************************************)
MaxCoord == 3

MaxTime == 2

MaxManagers == 2

MaxCanvas == 3

MaxPool == 3

MaxRects == 3

MaxSrc == 2

MaxPending == 2

(***************************************************************************)
(* Element trees.  A tree is what init() builds and the flexbox solver and *)
(* layoutChildren annotate: nodes 1..n in declaration (pre-)order, node 1  *)
(* the root element, parent[i] < i (0 is the Layout itself), box[i] the    *)
(* absolute layoutBox.  styleW/styleH are the root element's style width   *)
(* and height, 0 standing for undefined.                                   *)
(***************************************************************************)
Box(x, y, w, h) == [x |-> x, y |-> y, w |-> w, h |-> h]

\* root A(0,0,2,2) > B(2,2,1,1): the spec's hit-testing example, scaled
TreeAB ==
  [n |-> 2, parent |-> <<0, 1>>,
   box |-> <<Box(0, 0, 2, 2), Box(2, 2, 1, 1)>>, styleW |-> 2, styleH |-> 2]

\* root R(0,0,3,3) > A(0,0,2,2) > B(1,1,1,1), and C(2,2,1,1) declared after A
TreeSiblings ==
  [n |-> 4, parent |-> <<0, 1, 2, 1>>,
   box |-> <<Box(0, 0, 3, 3), Box(0, 0, 2, 2), Box(1, 1, 1, 1), Box(2, 2, 1, 1)>>,
   styleW |-> 2, styleH |-> 2]

\* a single root element whose style has no width
TreeNoWidth ==
  [n |-> 1, parent |-> <<0>>, box |-> <<Box(1, 1, 1, 1)>>, styleW |-> 0, styleH |-> 2]

TreeNoHeight ==
  [n |-> 1, parent |-> <<0>>, box |-> <<Box(1, 1, 1, 1)>>, styleW |-> 2, styleH |-> 0]

Trees == <<TreeAB, TreeSiblings, TreeNoWidth, TreeNoHeight>>

MaxNodes == TreeSiblings.n

Nodes == 0..MaxNodes

\* the tree the Layout holds, as a record (n = 0 when it holds none)
NoTree == [n |-> 0, parent |-> <<>>, box |-> <<>>, styleW |-> 0, styleH |-> 0]

TreeOf(ch) == IF ch = <<>> THEN NoTree ELSE Trees[ch[1]]

\* node.children, in order
ChildrenOf(tree, p) == {i \in 1..tree.n : tree.parent[i] = p}

(***************************************************************************)
(* Real-pixel boxes.  valid = FALSE stands for a box whose fields are      *)
(* undefined or NaN: every comparison with it is false.                    *)
(***************************************************************************)
NoBox == [valid |-> FALSE, realX |-> 0, realY |-> 0, width |-> 0, height |-> 0]

RealBox(x, y, w, h) == [valid |-> TRUE, realX |-> x, realY |-> y, width |-> w, height |-> h]

NoViewport == [set |-> FALSE, x |-> 0, y |-> 0, width |-> 0, height |-> 0]

NoRenderport == [set |-> FALSE, width |-> 0, height |-> 0]

\* the boxes updateViewPort(box) is called with (0 also stands for a missing field)
ViewportBoxes ==
  { [x |-> 0, y |-> 0, width |-> 2, height |-> 2],
    [x |-> 1, y |-> 1, width |-> 4, height |-> 4] }

\* scrollCanvas values: a canvas is a positive number
NotBuilt == 0 - 1

Null == 0

States == {"UNINIT", "INITED", "RENDERED", "CLEAR"}

\* trace: op, the operation; steps, the calls it made, in order; dirty and
\* repaint, the two flags as the operation found them (a tick: after the
\* animation update); had, hasEventHandler as it found it; events, the events
\* it emitted on nodes, in order; touch, the touch an input handler resolved;
\* afterCancel, whether a touchcancel was handled since the latest touchstart
NoTouch == [set |-> FALSE, pageX |-> 0, pageY |-> 0, timeStamp |-> 0]

Touch(x, y, t) == [set |-> TRUE, pageX |-> x, pageY |-> y, timeStamp |-> t]

NoTrace == [op |-> "new", steps |-> <<>>, dirty |-> FALSE, repaint |-> FALSE,
            had |-> FALSE, events |-> <<>>, touch |-> NoTouch, afterCancel |-> FALSE]

Has(seq, a) == \E i \in 1..Len(seq) : seq[i] = a

Before(seq, a, b) == \E i, j \in 1..Len(seq) : i < j /\ seq[i] = a /\ seq[j] = b

TweenEffects == {"none", "reflow", "repaint"}

(***************************************************************************)
(* The passes.  A pass works on the record L of the Layout fields it may   *)
(* change: isDirty, isNeedRepaint, renderport, real (the realLayoutBox of  *)
(* every node), steps (the calls made so far, in order) and thrown.        *)
(***************************************************************************)
\* viewport.width / renderport.width; 0 stands for NaN (an operand undefined)
Scale(vp, rp) ==
  IF vp.set /\ rp.set /\ rp.width > 0 THEN vp.width \div rp.width ELSE 0

ScaleIsNaN(vp, rp) == ~(vp.set /\ rp.set /\ rp.width > 0)

\* updateRealLayout: parent's real origin + absolute offset * scale, top-down
RECURSIVE RealOf(_, _, _, _)
RealOf(tree, real0, scale, i) ==
  IF i = 0 THEN real0
  ELSE LET p == RealOf(tree, real0, scale, tree.parent[i])
           b == tree.box[i]
       IN  RealBox(p.realX + b.x * scale, p.realY + b.y * scale,
                   b.w * scale, b.h * scale)

updateRealLayout(tree, real0, vp, rp) ==
  [i \in Nodes |->
     IF i = 0 THEN real0
     ELSE IF i > tree.n \/ ScaleIsNaN(vp, rp) THEN NoBox
     ELSE RealOf(tree, real0, Scale(vp, rp), i)]

RootStyleComparedToNull(tree) == FALSE

RootStyleMissing(tree) == tree.styleW = 0 \/ tree.styleH = 0

ReflowSteps(tree) ==
  <<"reflow", "computeLayout">>
    \o (IF RootStyleMissing(tree) THEN <<"console.error">> ELSE <<>>)
    \o <<"layoutChildren", "updateRealLayout", "clearCanvas", "renderChildren",
         "isDirty=false">>

reflow(L, tree, vp) ==
  IF tree.n = 0
    THEN \* children[0] is undefined: rootEle.style throws
         [L EXCEPT !.steps = @ \o <<"reflow", "computeLayout", "throw">>,
                   !.thrown = TRUE]
    ELSE LET rp == IF RootStyleMissing(tree) THEN L.renderport
                   ELSE [set |-> TRUE, width |-> tree.styleW, height |-> tree.styleH]
         IN  [L EXCEPT !.renderport = rp,
                       !.real = updateRealLayout(tree, L.real[0], vp, rp),
                       !.steps = @ \o ReflowSteps(tree),
                       !.isDirty = FALSE]

RepaintSteps == <<"repaint", "clearCanvas", "isNeedRepaint=false", "repaintChildren">>

repaint(L) ==
  [L EXCEPT !.isNeedRepaint = FALSE, !.steps = @ \o RepaintSteps]

TickPassesReflowOnRepaint(dirty, needRepaint) ==
  IF dirty \/ needRepaint THEN <<"reflow">> ELSE <<>>

TickPassesBoth(dirty, needRepaint) ==
  (IF dirty THEN <<"reflow">> ELSE <<>>) \o (IF needRepaint THEN <<"repaint">> ELSE <<>>)

TickPassesAlwaysRepaint(dirty, needRepaint) ==
  IF dirty THEN <<"reflow">> ELSE <<"repaint">>

\* tickerFunc's branch: the passes one tick runs, in order
TickPasses(dirty, needRepaint) ==
  IF dirty THEN <<"reflow">>
  ELSE IF needRepaint THEN <<"repaint">>
  ELSE <<>>

RunPass(pass, L, tree, vp) ==
  IF L.thrown THEN L
  ELSE IF pass = "reflow" THEN reflow(L, tree, vp)
  ELSE repaint(L)

RECURSIVE RunPasses(_, _, _, _)
RunPasses(passes, L, tree, vp) ==
  IF passes = <<>> THEN L
  ELSE RunPasses(Tail(passes), RunPass(Head(passes), L, tree, vp), tree, vp)

Fields(d, r, steps) ==
  [isDirty |-> d, isNeedRepaint |-> r, renderport |-> renderport,
   real |-> realLayoutBox, steps |-> steps, thrown |-> FALSE]

(***************************************************************************)
(* Init: the Layout singleton right after its constructor has run.         *)
(***************************************************************************)
\* a manager's scroll surface: reused = it was popped from the pool, cleared =
\* gl.clear ran on it since this manager got it, drawn = this manager has drawn
NoSurface == [reused |-> FALSE, cleared |-> FALSE, drawn |-> FALSE]

\* the layout a manager draws: root 1 > scroll view 2 > item 3, footer 4 after
\* the scroll view; nodes in declaration order, parent[i] < i
Scene == [n |-> 4, parent |-> <<0, 1, 2, 1>>, scrollview |-> 2]

SceneNodes == 1..Scene.n

\* node.glRect of every node: 0 is no primitive
NoGlRects == [n \in SceneNodes |-> 0]

\* Image.img: 0 is null, NoImg the state before an Image exists
NoImg == 0 - 1

Init ==
  /\ isDirty = FALSE
  /\ isNeedRepaint = FALSE
  /\ hasEventHandler = FALSE
  /\ children = <<>>
  /\ renderContext = "null"
  /\ viewport = NoViewport
  /\ hasViewPortSet = FALSE
  /\ renderport = NoRenderport
  /\ realLayoutBox = [i \in Nodes |-> IF i = 0 THEN RealBox(0, 0, 0, 0) ELSE NoBox]
  /\ state = "UNINIT"
  /\ touchMsg = [touchstart |-> NoTouch, touchend |-> NoTouch]
  /\ bindCount = 0
  /\ clock = 0
  /\ trace = NoTrace
  /\ canvasPool = <<>>
  /\ scrollCanvas = [m \in 1..MaxManagers |-> NotBuilt]
  /\ created = 0
  /\ surface = [m \in 1..MaxManagers |-> NoSurface]
  /\ glRects = [m \in 1..MaxManagers |-> <<>>]
  /\ scrollGlrects = [m \in 1..MaxManagers |-> <<>>]
  /\ hasSetup = [m \in 1..MaxManagers |-> FALSE]
  /\ glRect = [m \in 1..MaxManagers |-> NoGlRects]
  /\ rectCount = [m \in 1..MaxManagers |-> 0]
  /\ mainMade = [m \in 1..MaxManagers |-> {}]
  /\ img = NoImg
  /\ imgsrc = 0
  /\ isDestroyed = FALSE
  /\ hasSrcSetter = FALSE
  /\ pending = <<>>
  /\ cached = {}

(***************************************************************************)
(* The scheduler tick.                                                     *)
(***************************************************************************)
Tick ==
  \E tween \in TweenEffects :
    /\ tween = "reflow" => children # <<>>
    /\ LET d == isDirty \/ tween = "reflow"
           r == isNeedRepaint \/ tween = "repaint"
           L == RunPasses(TickPasses(d, r), Fields(d, r, <<"TWEEN.update">>),
                          TreeOf(children), viewport)
       IN  /\ isDirty' = L.isDirty
           /\ isNeedRepaint' = L.isNeedRepaint
           /\ renderport' = L.renderport
           /\ realLayoutBox' = L.real
           /\ trace' = [op |-> "tick", steps |-> L.steps, dirty |-> d,
                        repaint |-> r, had |-> hasEventHandler, events |-> <<>>,
                        touch |-> NoTouch, afterCancel |-> trace.afterCancel]
    /\ UNCHANGED <<hasEventHandler, children, renderContext, viewport,
                   hasViewPortSet, state, bindCount>>
    /\ UNCHANGED <<touchVars, poolVars, rectVars, imageVars>>

(***************************************************************************)
(* The public operations of the Layout.                                    *)
(***************************************************************************)
Op(name, steps) ==
  [op |-> name, steps |-> steps, dirty |-> isDirty, repaint |-> isNeedRepaint,
   had |-> hasEventHandler, events |-> <<>>, touch |-> NoTouch,
   afterCancel |-> trace.afterCancel]

\* init(template, style): builds one tree and adds it as the Layout's child.
\* Called on a Layout that holds no tree (a new one, or after clear()).
init ==
  \E t \in 1..Len(Trees) :
    /\ children = <<>>
    /\ children' = <<t>>
    /\ state' = "INITED"
    /\ trace' = Op("init", <<"parse", "create", "add">>)
    /\ UNCHANGED <<isDirty, isNeedRepaint, hasEventHandler, renderContext, viewport,
                   hasViewPortSet, renderport, realLayoutBox, bindCount>>
    /\ UNCHANGED <<touchVars, poolVars, rectVars, imageVars>>

updateViewPortMarksDirty ==
  \E box \in ViewportBoxes :
    /\ viewport' = [set |-> TRUE, x |-> box.x, y |-> box.y,
                    width |-> box.width, height |-> box.height]
    /\ realLayoutBox' = [realLayoutBox EXCEPT ![0] = RealBox(box.x, box.y, 0, 0)]
    /\ hasViewPortSet' = TRUE
    /\ isDirty' = TRUE
    /\ trace' = Op("updateViewPort", <<>>)
    /\ UNCHANGED <<isNeedRepaint, hasEventHandler, children, renderContext,
                   renderport, state, bindCount>>
    /\ UNCHANGED <<touchVars, poolVars, rectVars, imageVars>>

updateViewPort ==
  \E box \in ViewportBoxes :
    /\ viewport' = [set |-> TRUE, x |-> box.x, y |-> box.y,
                    width |-> box.width, height |-> box.height]
    /\ realLayoutBox' = [realLayoutBox EXCEPT ![0] = RealBox(box.x, box.y, 0, 0)]
    /\ hasViewPortSet' = TRUE
    /\ trace' = Op("updateViewPort", <<>>)
    /\ UNCHANGED <<isDirty, isNeedRepaint, hasEventHandler, children, renderContext,
                   renderport, state, bindCount>>
    /\ UNCHANGED <<touchVars, poolVars, rectVars, imageVars>>

bindEventsNoGuard(has, count) ==
  [hasEventHandler |-> TRUE, bindCount |-> count + 1]

\* bindEvents(): the guard, the flag and the registration with the host
bindEvents(has, count) ==
  IF has THEN [hasEventHandler |-> has, bindCount |-> count]
  ELSE [hasEventHandler |-> TRUE, bindCount |-> count + 1]

layout ==
  LET first == IF hasViewPortSet THEN <<>> ELSE <<"console.error">>
      L == reflow(Fields(isDirty, isNeedRepaint, first), TreeOf(children), viewport)
      B == bindEvents(hasEventHandler, bindCount)
  IN  /\ renderContext' = "ctx"
      /\ isDirty' = L.isDirty
      /\ isNeedRepaint' = L.isNeedRepaint
      /\ renderport' = L.renderport
      /\ realLayoutBox' = L.real
      /\ IF L.thrown
           THEN /\ UNCHANGED <<hasEventHandler, bindCount, state>>
                /\ trace' = Op("layout", L.steps)
           ELSE /\ hasEventHandler' = B.hasEventHandler
                /\ bindCount' = B.bindCount
                /\ state' = "RENDERED"
                /\ trace' = Op("layout", L.steps \o <<"bindEvents">>)
      /\ UNCHANGED <<children, viewport, hasViewPortSet>>
      /\ UNCHANGED <<touchVars, poolVars, rectVars, imageVars>>

ClearBodyResetsDirty(name, steps) ==
  /\ children' = <<>>
  /\ realLayoutBox' = [i \in Nodes |-> IF i = 0 THEN realLayoutBox[0] ELSE NoBox]
  /\ state' = "CLEAR"
  /\ isDirty' = FALSE
  /\ trace' = Op(name, steps)
  /\ UNCHANGED <<isNeedRepaint, hasEventHandler, renderContext, viewport,
                 hasViewPortSet, renderport, bindCount>>
  /\ UNCHANGED <<touchVars, poolVars, rectVars, imageVars>>

\* clear(): destroyAll, children = [], state = CLEAR, clearCanvas
ClearBody(name, steps) ==
  /\ children' = <<>>
  /\ realLayoutBox' = [i \in Nodes |-> IF i = 0 THEN realLayoutBox[0] ELSE NoBox]
  /\ state' = "CLEAR"
  /\ trace' = Op(name, steps)
  /\ UNCHANGED <<isDirty, isNeedRepaint, hasEventHandler, renderContext, viewport,
                 hasViewPortSet, renderport, bindCount>>
  /\ UNCHANGED <<touchVars, poolVars, rectVars, imageVars>>

clear == ClearBody("clear", <<"destroyAll", "clearCanvas">>)

clearAll == ClearBody("clearAll", <<"destroyAll", "clearCanvas", "imgPool.clear">>)

onRepaintSync ==
  /\ isNeedRepaint' = FALSE
  /\ trace' = Op("repaint-event", RepaintSteps)
  /\ UNCHANGED <<isDirty, hasEventHandler, children, renderContext, viewport,
                 hasViewPortSet, renderport, realLayoutBox, state, bindCount>>
  /\ UNCHANGED <<touchVars, poolVars, rectVars, imageVars>>

\* the 'repaint' listener of the constructor
onRepaint ==
  /\ isNeedRepaint' = TRUE
  /\ trace' = Op("repaint-event", <<"isNeedRepaint=true">>)
  /\ UNCHANGED <<isDirty, hasEventHandler, children, renderContext, viewport,
                 hasViewPortSet, renderport, realLayoutBox, state, bindCount>>
  /\ UNCHANGED <<touchVars, poolVars, rectVars, imageVars>>

\* a geometry mutation of a node of the tree sets needsLayout
setDirty ==
  /\ children # <<>>
  /\ isDirty' = TRUE
  /\ trace' = Op("setDirty", <<"isDirty=true">>)
  /\ UNCHANGED <<isNeedRepaint, hasEventHandler, children, renderContext, viewport,
                 hasViewPortSet, renderport, realLayoutBox, state, bindCount>>
  /\ UNCHANGED <<touchVars, poolVars, rectVars, imageVars>>

Next ==
  \/ Tick
  \/ init
  \/ updateViewPort
  \/ layout
  \/ clear
  \/ clearAll
  \/ onRepaint
  \/ setDirty

Spec == Init /\ [][Next]_vars

(***************************************************************************)
(* The dirty scheduler (checked under Spec).                               *)
(***************************************************************************)

\* C1 (as claimed): a tick that finds isDirty set after the animation update
\* runs reflow and ends with isDirty and isNeedRepaint both clear.
C1_TickClearsBothFlags ==
  (trace.op = "tick" /\ trace.dirty)
    => (Has(trace.steps, "reflow") /\ ~isDirty /\ ~isNeedRepaint)

\* C2: the 'repaint' listener only sets isNeedRepaint, and a tick that finds
\* isNeedRepaint set and isDirty clear runs repaint() with no solver call,
\* clears isNeedRepaint and leaves isDirty and the real boxes as they were.
C2_PaintOnlyNeverSolves ==
  [][ /\ trace'.op = "repaint-event"
         => /\ isNeedRepaint'
            /\ ~Has(trace'.steps, "computeLayout")
            /\ UNCHANGED <<isDirty, hasEventHandler, children, renderContext,
                           viewport, hasViewPortSet, renderport, realLayoutBox,
                           state, bindCount>>
      /\ (trace'.op = "tick" /\ trace'.repaint /\ ~trace'.dirty)
         => /\ Has(trace'.steps, "repaintChildren")
            /\ ~Has(trace'.steps, "computeLayout")
            /\ ~Has(trace'.steps, "reflow")
            /\ ~isNeedRepaint'
            /\ isDirty' = isDirty
            /\ ~isDirty'
            /\ UNCHANGED <<realLayoutBox, renderport>> ]_vars

C2_Witness ==
  /\ trace.op = "tick" /\ trace.repaint /\ ~trace.dirty
  /\ Has(trace.steps, "repaintChildren")
  /\ state = "RENDERED"

\* C3: one tick runs at most one of reflow() and repaint(); with both flags
\* set it runs reflow() only.
C3_OnePassPerTick ==
  trace.op = "tick"
    => /\ ~(Has(trace.steps, "reflow") /\ Has(trace.steps, "repaint"))
       /\ (trace.dirty /\ trace.repaint)
          => (Has(trace.steps, "reflow") /\ ~Has(trace.steps, "repaint")
              /\ ~Has(trace.steps, "repaintChildren"))

C3_Witness ==
  /\ trace.op = "tick" /\ trace.dirty /\ trace.repaint
  /\ Has(trace.steps, "renderChildren")

\* C4: a tick that finds neither flag set after the animation update calls
\* nothing else and changes no field of the Layout.
C4_IdleTickIsNoOp ==
  [][ (trace'.op = "tick" /\ ~trace'.dirty /\ ~trace'.repaint)
        => /\ trace'.steps = <<"TWEEN.update">>
           /\ UNCHANGED <<layoutVars, touchVars, poolVars, rectVars, imageVars>> ]_vars

C4_Witness ==
  /\ trace.op = "tick" /\ ~trace.dirty /\ ~trace.repaint
  /\ state = "RENDERED" /\ children # <<>>

\* C5 (as claimed): a flag goes from set to clear only in a scheduler tick,
\* isDirty after renderChildren and isNeedRepaint after repaintChildren.
C5_ClearedOnlyByTickAfterPass ==
  [][ /\ (isDirty /\ ~isDirty')
         => (trace'.op = "tick"
             /\ Before(trace'.steps, "renderChildren", "isDirty=false"))
      /\ (isNeedRepaint /\ ~isNeedRepaint')
         => (trace'.op = "tick"
             /\ Before(trace'.steps, "repaintChildren", "isNeedRepaint=false")) ]_vars

\* C5 (amended): isDirty goes from set to clear only inside reflow(), run by a
\* tick or by layout(), after renderChildren; isNeedRepaint goes from set to
\* clear only inside repaint(), run by a tick, after the canvas clear and
\* before repaintChildren; no other operation clears a flag.
C5_ClearedOnlyInsidePass ==
  [][ /\ (isDirty /\ ~isDirty')
         => (trace'.op \in {"tick", "layout"}
             /\ Before(trace'.steps, "renderChildren", "isDirty=false"))
      /\ (isNeedRepaint /\ ~isNeedRepaint')
         => (trace'.op = "tick"
             /\ Before(trace'.steps, "clearCanvas", "isNeedRepaint=false")
             /\ Before(trace'.steps, "isNeedRepaint=false", "repaintChildren")) ]_vars

C5_Witness ==
  /\ trace.op = "layout" /\ trace.dirty /\ ~isDirty
  /\ trace.repaint /\ isNeedRepaint

\* C9: the handler set is registered with the host at most once, whatever
\* the sequence of init(), layout(), clear() and clearAll().
C9_BoundAtMostOnce ==
  /\ bindCount <= 1
  /\ hasEventHandler <=> bindCount = 1

C9_Witness ==
  /\ trace.op = "layout" /\ trace.had
  /\ Has(trace.steps, "bindEvents")
  /\ bindCount = 1

(***************************************************************************)
(* The event router.                                                       *)
(***************************************************************************)
\* the points input events arrive at: the diagonal, and one point on each axis
Points ==
  {<<c, c>> : c \in 1..MaxCoord} \cup {<<0, 1>>, <<1, 0>>}

TouchEvents == {"touchstart", "touchmove", "touchend", "touchcancel"}

\* the click thresholds (distance, elapsed time), scaled to the model's grid
ClickDist == 2

ClickTime == 2

Abs(i) == IF i < 0 THEN 0 - i ELSE i

isClick(msg) ==
  /\ msg.touchstart.set
  /\ msg.touchend.set
  /\ Abs(msg.touchend.pageY - msg.touchstart.pageY) < ClickDist
  /\ Abs(msg.touchend.pageX - msg.touchstart.pageX) < ClickDist
  /\ msg.touchend.timeStamp - msg.touchstart.timeStamp < ClickTime

\* the hit condition of getChildByPos
Contains(box, x, y) ==
  /\ box.valid
  /\ box.realX <= x /\ x <= box.realX + box.width
  /\ box.realY <= y /\ y <= box.realY + box.height

\* tree.children as the list the loop walks
ChildSeq(tree, p) ==
  SelectSeq([i \in 1..tree.n |-> i], LAMBDA i : tree.parent[i] = p)

\* the loop of getChildByPos over the children still to visit
RECURSIVE VisitChildren(_, _, _, _, _, _)
VisitChildren(tree, real, kids, x, y, itemList) ==
  IF kids = <<>> THEN itemList
  ELSE LET child == Head(kids)
           hit == Contains(real[child], x, y)
           pushed == IF hit THEN Append(itemList, child) ELSE itemList
           below == IF hit /\ ChildSeq(tree, child) # <<>>
                      THEN VisitChildren(tree, real, ChildSeq(tree, child), x, y, pushed)
                      ELSE pushed
       IN  VisitChildren(tree, real, Tail(kids), x, y, below)

getChildByPos(tree, real, p, x, y, itemList) ==
  VisitChildren(tree, real, ChildSeq(tree, p), x, y, itemList)

\* touch.timeStamp, taken from the event when the touch has none
TimeStampOf(touchTs, eventTs) == IF touchTs = 0 THEN eventTs ELSE touchTs

\* lines 251-253: the early return
DroppedBothZero(x, y) == x = 0 /\ y = 0

Dropped(x, y) == x = 0 \/ y = 0

\* lines 259-277: the events emitted and the new touchMsg
Dispatch(eventName, touch, tree, real, msg) ==
  LET list == getChildByPos(tree, real, 0, touch.pageX, touch.pageY, <<>>)
      item == IF list = <<>> THEN 0 ELSE list[Len(list)]
      msg1 == IF eventName \in {"touchstart", "touchend"}
                THEN [msg EXCEPT ![eventName] = touch] ELSE msg
      primary == <<[name |-> eventName, target |-> item]>>
      click == IF eventName = "touchend" /\ isClick(msg1)
                 THEN <<[name |-> "click", target |-> item]>> ELSE <<>>
  IN  [events |-> primary \o click, touchMsg |-> msg1]

\* the time stamps an event may carry: time only moves on with the touches
\* touchMsg records
EventTimes(eventName) ==
  IF eventName \in {"touchstart", "touchend"} THEN clock..MaxTime ELSE {clock}

\* The host is the one of bindEvents' first branch: its touch objects carry
\* no timeStamp (0), the event does.
touchEventHandlerAt(eventName, points) ==
  \E p \in points, t \in EventTimes(eventName) :
    LET touch == Touch(p[1], p[2], TimeStampOf(0, t))
        D == Dispatch(eventName, touch, TreeOf(children), realLayoutBox, touchMsg)
        cancelled == IF eventName = "touchcancel" /\ ~Dropped(p[1], p[2]) THEN TRUE
                     ELSE IF eventName = "touchstart" THEN FALSE
                     ELSE trace.afterCancel
    IN  /\ hasEventHandler
        /\ IF Dropped(p[1], p[2])
             THEN /\ UNCHANGED <<touchMsg, clock>>
                  /\ trace' = [Op(eventName, <<>>) EXCEPT
                                 !.touch = touch, !.afterCancel = cancelled]
             ELSE /\ touchMsg' = D.touchMsg
                  /\ clock' = IF D.touchMsg # touchMsg THEN t ELSE clock
                  /\ trace' = [Op(eventName, <<"getChildByPos">>) EXCEPT
                                 !.touch = touch, !.events = D.events,
                                 !.afterCancel = cancelled]
        /\ UNCHANGED <<layoutVars, poolVars, rectVars, imageVars>>

touchEventHandler(eventName) == touchEventHandlerAt(eventName, Points)

touchStart == touchEventHandler("touchstart")

touchMove == touchEventHandler("touchmove")

touchEnd == touchEventHandler("touchend")

touchCancel == touchEventHandler("touchcancel")

\* The router's behaviours: a tree is built, the viewport set and the tree
\* laid out (layout() binds the handlers), and then input events arrive.
NextTouch ==
  \/ init
  \/ (state # "RENDERED" /\ updateViewPort)
  \/ (state # "RENDERED" /\ layout)
  \/ touchStart
  \/ touchMove
  \/ touchEnd
  \/ touchCancel

SpecTouch == Init /\ [][NextTouch]_vars

(***************************************************************************)
(* The event router (checked under SpecTouch).                             *)
(***************************************************************************)
RECURSIVE AllContain(_, _, _, _, _)
\* node i and every ancestor of it below the Layout contain (x, y)
AllContain(tree, real, i, x, y) ==
  IF i = 0 THEN TRUE
  ELSE Contains(real[i], x, y) /\ AllContain(tree, real, tree.parent[i], x, y)

\* the last-declared node that, with all its ancestors, contains the point;
\* the Layout (0) when there is none
HitTarget(tree, real, x, y) ==
  LET hit == {i \in 1..tree.n : AllContain(tree, real, i, x, y)}
  IN  IF hit = {} THEN 0 ELSE CHOOSE i \in hit : \A j \in hit : j <= i

Primary(tr) == SelectSeq(tr.events, LAMBDA e : e.name = tr.op)

Clicks(tr) == SelectSeq(tr.events, LAMBDA e : e.name = "click")

\* the two touches are within the distance and elapsed-time thresholds
Within(a, b) ==
  /\ Abs(b.pageX - a.pageX) < ClickDist
  /\ Abs(b.pageY - a.pageY) < ClickDist
  /\ b.timeStamp - a.timeStamp < ClickTime

\* C6 (as claimed): every touch event, at every point, is delivered to exactly
\* one node, the last-declared node that contains the point together with all
\* its ancestors, or the Layout when no node does.
C6_DeliveredToHitTarget ==
  trace.op \in TouchEvents
    => Primary(trace) =
         <<[name |-> trace.op,
            target |-> HitTarget(TreeOf(children), realLayoutBox,
                                 trace.touch.pageX, trace.touch.pageY)]>>

\* C6, for the events the handler does not drop (pageX and pageY non-zero)
C6_DeliveredUnlessDropped ==
  (trace.op \in TouchEvents /\ ~Dropped(trace.touch.pageX, trace.touch.pageY))
    => Primary(trace) =
         <<[name |-> trace.op,
            target |-> HitTarget(TreeOf(children), realLayoutBox,
                                 trace.touch.pageX, trace.touch.pageY)]>>

\* C7 (as claimed): a touchend within the thresholds of the recorded
\* touchstart emits touchend and then click on one node; a touchend outside
\* them emits touchend and no click.
C7_ClickSynthesis ==
  (trace.op = "touchend" /\ touchMsg.touchstart.set)
    => IF Within(touchMsg.touchstart, trace.touch)
         THEN /\ Len(trace.events) = 2
              /\ trace.events[1].name = "touchend"
              /\ trace.events[2].name = "click"
              /\ trace.events[1].target = trace.events[2].target
         ELSE /\ Len(trace.events) = 1
              /\ trace.events[1].name = "touchend"

\* C7, for the touchends the handler does not drop
C7_ClickSynthesisUnlessDropped ==
  (trace.op = "touchend" /\ touchMsg.touchstart.set
     /\ ~Dropped(trace.touch.pageX, trace.touch.pageY))
    => IF Within(touchMsg.touchstart, trace.touch)
         THEN /\ Len(trace.events) = 2
              /\ trace.events[1].name = "touchend"
              /\ trace.events[2].name = "click"
              /\ trace.events[1].target = trace.events[2].target
         ELSE /\ Len(trace.events) = 1
              /\ trace.events[1].name = "touchend"

\* C8 (as claimed): a touchcancel the handler delivers leaves touchMsg empty
\* and emits no click, and a touchend that follows it with no touchstart in
\* between emits no click.
C8_CancelClearsGesture ==
  /\ (trace.op = "touchcancel" /\ Primary(trace) # <<>>)
       => /\ touchMsg = [touchstart |-> NoTouch, touchend |-> NoTouch]
          /\ Clicks(trace) = <<>>
  /\ (trace.op = "touchend" /\ trace.afterCancel) => Clicks(trace) = <<>>

\* C8, second half alone: no click on a touchend that follows a delivered
\* touchcancel
C8_NoClickAfterCancel ==
  (trace.op = "touchend" /\ trace.afterCancel) => Clicks(trace) = <<>>

(***************************************************************************)
(* RenderContextManager: the scroll-surface pool.                          *)
(***************************************************************************)
Managers == 1..MaxManagers

\* canvasPool.pop() || createCanvas(): pop removes the last entry whatever it
\* is; a falsy result (empty pool, null entry) makes a new canvas
Acquire(pool, made) ==
  LET popped == IF pool = <<>> THEN Null ELSE pool[Len(pool)]
      rest == IF pool = <<>> THEN pool ELSE SubSeq(pool, 1, Len(pool) - 1)
  IN  IF popped # Null
        THEN [canvas |-> popped, pool |-> rest, created |-> made]
        ELSE [canvas |-> made + 1, pool |-> rest, created |-> made + 1]

\* new RenderContextManager(canvasContext, scale), held in slot m; a slot is
\* free when no manager was built in it or its manager has been released.
\* The host then assigns the manager's layout (the Scene), none of whose
\* nodes has a primitive yet.
construct(m) ==
  LET A == Acquire(canvasPool, created)
  IN  /\ scrollCanvas[m] \in {NotBuilt, Null}
      /\ A.created <= MaxCanvas
      /\ scrollCanvas' = [scrollCanvas EXCEPT ![m] = A.canvas]
      /\ canvasPool' = A.pool
      /\ created' = A.created
      /\ surface' = [surface EXCEPT ![m] =
                       [reused |-> A.created = created, cleared |-> FALSE,
                        drawn |-> FALSE]]
      /\ glRects' = [glRects EXCEPT ![m] = <<>>]
      /\ scrollGlrects' = [scrollGlrects EXCEPT ![m] = <<>>]
      /\ hasSetup' = [hasSetup EXCEPT ![m] = FALSE]
      /\ glRect' = [glRect EXCEPT ![m] = NoGlRects]
      /\ rectCount' = [rectCount EXCEPT ![m] = 0]
      /\ mainMade' = [mainMade EXCEPT ![m] = {}]
      /\ trace' = Op("construct", <<>>)
      /\ UNCHANGED <<layoutVars, touchVars, imageVars>>

setupScrollGl(m) ==
  LET A == IF scrollCanvas[m] = Null THEN Acquire(canvasPool, created)
           ELSE [canvas |-> scrollCanvas[m], pool |-> canvasPool, created |-> created]
  IN  /\ scrollCanvas[m] # NotBuilt
      /\ A.created <= MaxCanvas
      /\ scrollCanvas' = [scrollCanvas EXCEPT ![m] = A.canvas]
      /\ canvasPool' = A.pool
      /\ created' = A.created
      /\ surface' = [surface EXCEPT ![m] =
                       [reused |-> IF scrollCanvas[m] = Null
                                     THEN A.created = created
                                     ELSE surface[m].reused,
                        cleared |-> TRUE,
                        drawn |-> surface[m].drawn]]
      /\ trace' = Op("setupScrollGl", <<"setupGl", "gl.clear">>)
      /\ UNCHANGED <<layoutVars, touchVars, rectVars, imageVars>>

\* release(): push this.scrollCanvas, then null it
release(m) ==
  /\ scrollCanvas[m] # NotBuilt
  /\ Len(canvasPool) < MaxPool
  /\ canvasPool' = Append(canvasPool, scrollCanvas[m])
  /\ scrollCanvas' = [scrollCanvas EXCEPT ![m] = Null]
  /\ created' = created
  /\ surface' = surface
  /\ trace' = Op("release", <<"push">>)
  /\ UNCHANGED <<layoutVars, touchVars, rectVars, imageVars>>

(***************************************************************************)
(* RenderContextManager: the primitive collections.                        *)
(***************************************************************************)
\* the children of a node of the Scene, in declaration order
SceneChildren(node) ==
  LET S == {k \in SceneNodes : Scene.parent[k] = node}
      F[i \in 0..Scene.n] ==
        IF i = 0 THEN <<>>
        ELSE IF i \in S THEN Append(F[i - 1], i) ELSE F[i - 1]
  IN  F[Scene.n]

\* the strict descendants of the scroll view
RECURSIVE Under(_, _)
Under(node, top) ==
  /\ node # 0
  /\ Scene.parent[node] # 0
  /\ (Scene.parent[node] = top \/ Under(Scene.parent[node], top))

ScrollNodes == {k \in SceneNodes : Under(k, Scene.scrollview)}

\* Array.prototype.indexOf: the 0-based index of the first x, or -1
indexOf(seq, x) ==
  IF \E i \in 1..Len(seq) : seq[i] = x
    THEN (CHOOSE i \in 1..Len(seq) :
            seq[i] = x /\ \A j \in 1..(i - 1) : seq[j] # x) - 1
    ELSE 0 - 1

\* Array.prototype.splice(index, 1): a negative index counts from the end
splice(seq, index) ==
  LET len == Len(seq)
      start == IF index < 0
                 THEN (IF len + index < 0 THEN 0 ELSE len + index)
                 ELSE (IF index > len THEN len ELSE index)
  IN  IF start >= len THEN seq
      ELSE SubSeq(seq, 1, start) \o SubSeq(seq, start + 2, len)

\* getChildrenGlRects(node, res): acc is [glRects, res]
RECURSIVE getChildrenGlRects(_, _, _)
RECURSIVE EachChild(_, _, _)
getChildrenGlRects(rectOf, node, acc) ==
  LET here == IF node # Scene.scrollview /\ rectOf[node] # 0
                THEN [glRects |-> splice(acc.glRects,
                                         indexOf(acc.glRects, rectOf[node])),
                      res |-> Append(acc.res, rectOf[node])]
                ELSE acc
  IN  EachChild(rectOf, SceneChildren(node), here)

EachChild(rectOf, kids, acc) ==
  IF kids = <<>> THEN acc
  ELSE EachChild(rectOf, Tail(kids), getChildrenGlRects(rectOf, Head(kids), acc))

\* node.glRect = manager.createRoundRect(id, type), for node n of the layout
createRoundRect(m, n) ==
  /\ scrollCanvas[m] # NotBuilt
  /\ rectCount[m] < MaxRects
  /\ rectCount' = [rectCount EXCEPT ![m] = rectCount[m] + 1]
  /\ glRects' = [glRects EXCEPT ![m] = Append(glRects[m], rectCount[m] + 1)]
  /\ glRect' = [glRect EXCEPT ![m][n] = rectCount[m] + 1]
  /\ mainMade' = [mainMade EXCEPT ![m] =
                    IF n \in ScrollNodes THEN mainMade[m]
                    ELSE mainMade[m] \cup {rectCount[m] + 1}]
  /\ trace' = Op("createRoundRect", <<"push">>)
  /\ UNCHANGED <<layoutVars, touchVars, poolVars, imageVars>>
  /\ UNCHANGED <<scrollGlrects, hasSetup>>

\* RenderContextManager.clear()
clearGlRects(m) ==
  /\ scrollCanvas[m] # NotBuilt
  /\ glRects' = [glRects EXCEPT ![m] = <<>>]
  /\ mainMade' = [mainMade EXCEPT ![m] = {}]
  /\ trace' = Op("manager.clear", <<>>)
  /\ UNCHANGED <<layoutVars, touchVars, poolVars, imageVars>>
  /\ UNCHANGED <<scrollGlrects, hasSetup, glRect, rectCount>>

\* draw(needInit)
draw(m, needInit) ==
  LET setup == ~hasSetup[m] \/ needInit
      P == getChildrenGlRects(glRect[m], Scene.scrollview,
                              [glRects |-> glRects[m], res |-> <<>>])
  IN  /\ scrollCanvas[m] # NotBuilt
      /\ hasSetup' = [hasSetup EXCEPT ![m] = TRUE]
      /\ glRects' = [glRects EXCEPT ![m] = IF setup THEN P.glRects ELSE @]
      /\ scrollGlrects' = [scrollGlrects EXCEPT ![m] = IF setup THEN P.res ELSE @]
      /\ surface' = [surface EXCEPT ![m].drawn = TRUE]
      /\ trace' = Op("draw",
                     (IF setup THEN <<"setupGl", "getChildrenGlRects">> ELSE <<>>)
                       \o <<"renderer.resetGl", "renderer.repaint">>)
      /\ UNCHANGED <<layoutVars, touchVars, imageVars>>
      /\ UNCHANGED <<canvasPool, scrollCanvas, created, glRect, rectCount, mainMade>>

NextPool ==
  \/ \E m \in Managers : construct(m)
  \/ \E m \in Managers : setupScrollGl(m)
  \/ \E m \in Managers : release(m)
  \/ \E m \in Managers : draw(m, FALSE)

SpecPool == Init /\ [][NextPool]_vars

InPool(c) == \E i \in 1..Len(canvasPool) : canvasPool[i] = c

PoolNoDuplicate ==
  \A i, j \in 1..Len(canvasPool) :
    (i # j /\ canvasPool[i] # Null) => canvasPool[i] # canvasPool[j]

PoolNoNull == ~InPool(Null)

PoolNotHeld ==
  \A m \in Managers : scrollCanvas[m] > Null => ~InPool(scrollCanvas[m])

HeldByOne ==
  \A m, k \in Managers :
    (m # k /\ scrollCanvas[m] > Null) => scrollCanvas[m] # scrollCanvas[k]

\* C10 (as claimed): after any sequence of constructions, setupScrollGl() and
\* release() calls, release() twice on one manager included, the pool holds
\* each canvas at most once and no null entry, and no canvas is both pooled
\* and held, or held by two managers.
C10_PoolSound ==
  PoolNoDuplicate /\ PoolNoNull /\ PoolNotHeld /\ HeldByOne

\* C10 without the null entries: no canvas is ever pooled twice, pooled while
\* held, or held twice
C10_NoDoubleFree == PoolNoDuplicate /\ PoolNotHeld /\ HeldByOne

(***************************************************************************)
(* Teardown of the tree and the scroll surface (checked under              *)
(* SpecTeardown: the Layout's lifecycle next to its render context         *)
(* managers).                                                              *)
(***************************************************************************)
\* the tree is laid out once it is built and a render context exists
NextTeardown ==
  \/ init
  \/ (children # <<>> /\ (\E m \in Managers : scrollCanvas[m] > Null) /\ layout)
  \/ clear
  \/ clearAll
  \/ \E m \in Managers : construct(m)
  \/ \E m \in Managers : release(m)

SpecTeardown == Init /\ [][NextTeardown]_vars

\* C11 (as claimed): once clear() or clearAll() has torn down a tree that was
\* laid out on a render context, no render context manager still holds a
\* scroll surface: the surface it took is back in the pool.
C11_TeardownReleasesSurface ==
  (trace.op \in {"clear", "clearAll"} /\ renderContext = "ctx")
    => \A m \in Managers : scrollCanvas[m] <= Null

\* C12 (as claimed): a manager whose scroll surface was popped from the pool
\* makes its first draw() only after gl.clear has run on that surface.
C12_ClearedBeforeFirstDraw ==
  [][ \A m \in Managers :
        (surface'[m].drawn /\ ~surface[m].drawn
           /\ surface[m].reused /\ scrollCanvas[m] > Null)
          => surface[m].cleared ]_vars

(***************************************************************************)
(* The partition of the primitives of a layout with a scroll view (checked *)
(* under SpecRects: one manager, its primitives made, cleared and drawn).  *)
(***************************************************************************)
FirstManager == CHOOSE m \in Managers : \A k \in Managers : m <= k

NextRects ==
  \/ construct(FirstManager)
  \/ \E n \in SceneNodes : createRoundRect(FirstManager, n)
  \/ clearGlRects(FirstManager)
  \/ \E needInit \in BOOLEAN : draw(FirstManager, needInit)

SpecRects == Init /\ [][NextRects]_vars

\* the primitives now owned by the strict descendants of the scroll view
ScrollRects(m) == {glRect[m][n] : n \in ScrollNodes} \ {0}

\* C13 (as claimed): after a draw, scrollGlrects holds exactly the primitives
\* of the scroll view's strict descendants, glRects holds none of them, and
\* every primitive made since the last clear() for a node outside the scroll
\* region, the scroll view included, is still in glRects.
C13_Partitioned ==
  \A m \in Managers :
    (trace.op = "draw" /\ hasSetup[m])
      => /\ {scrollGlrects[m][i] : i \in 1..Len(scrollGlrects[m])} = ScrollRects(m)
         /\ \A r \in ScrollRects(m) : ~Has(glRects[m], r)
         /\ \A r \in mainMade[m] : Has(glRects[m], r)

\* C13, last part only: a draw never takes a primitive of a node outside the
\* scroll region out of glRects
C13_PartitionKeepsMain ==
  [][ \A m \in Managers :
        trace'.op = "draw"
          => \A r \in mainMade[m] : Has(glRects[m], r) => Has(glRects'[m], r) ]_vars

(***************************************************************************)
(* The Image component and its loads (checked under SpecImage).  A source  *)
(* is a number of Sources; the image object loadImage makes for source s   *)
(* is s itself.  loadImage(src, onDone) returns the image object at once;  *)
(* for a cached source it has called onDone(img, true) before it returns,  *)
(* for any other it calls onDone(img, false) when the load completes.      *)
(***************************************************************************)
Sources == 1..MaxSrc

Load(by, src) == [by |-> by, src |-> src]

\* new Image({src}): this.img = loadImage(src, callback)
newImage(src) ==
  /\ img = NoImg
  /\ imgsrc' = src
  /\ hasSrcSetter' = TRUE
  /\ isDestroyed' = FALSE
  /\ img' = src
  /\ Len(pending) < MaxPending
  /\ pending' = IF src \in cached THEN pending
                ELSE Append(pending, Load("constructor", src))
  /\ trace' = Op("new Image", IF src \in cached THEN <<"img=img">> ELSE <<>>)
  /\ UNCHANGED <<layoutVars, touchVars, poolVars, rectVars, cached>>

\* insert(ctx, box): this.img = loadImage(this.src, callback)
insert ==
  /\ img # NoImg
  /\ ~isDestroyed
  /\ img' = imgsrc
  /\ Len(pending) < MaxPending
  /\ pending' = IF imgsrc \in cached THEN pending
                ELSE Append(pending, Load("insert", imgsrc))
  /\ trace' = Op("insert", IF imgsrc \in cached THEN <<"img=img", "render">>
                           ELSE <<>>)
  /\ UNCHANGED <<layoutVars, touchVars, poolVars, rectVars>>
  /\ UNCHANGED <<imgsrc, isDestroyed, hasSrcSetter, cached>>

\* image.src = newValue, through the accessor the constructor defined
setSrc(newValue) ==
  /\ img # NoImg
  /\ hasSrcSetter
  /\ Len(pending) < MaxPending
  /\ IF newValue = imgsrc
       THEN /\ trace' = Op("src=", <<>>)
            /\ UNCHANGED <<img, imgsrc, pending>>
       ELSE /\ imgsrc' = newValue
            /\ IF newValue \in cached
                 THEN /\ img' = newValue
                      /\ pending' = pending
                      /\ trace' = Op("src=", <<"img=img", "emit repaint">>)
                 ELSE /\ img' = img
                      /\ pending' = Append(pending, Load("src", newValue))
                      /\ trace' = Op("src=", <<>>)
  /\ UNCHANGED <<layoutVars, touchVars, poolVars, rectVars>>
  /\ UNCHANGED <<isDestroyed, hasSrcSetter, cached>>

destroySelf ==
  /\ img # NoImg
  /\ ~isDestroyed
  /\ isDestroyed' = TRUE
  /\ img' = Null
  /\ hasSrcSetter' = FALSE
  /\ trace' = Op("destroySelf", <<>>)
  /\ UNCHANGED <<layoutVars, touchVars, poolVars, rectVars>>
  /\ UNCHANGED <<imgsrc, pending, cached>>

\* what the callback of load l does when called with (img, false), on a node
\* whose img field is now cur and which is or is not below a scroll view
onDone(l, cur, isScrollViewChild) ==
  IF l.by = "src"
    THEN [img |-> l.src, steps |-> <<"img=img", "emit repaint">>]
  ELSE IF l.by = "constructor"
    THEN [img |-> cur,
          steps |-> IF cur # Null /\ isScrollViewChild
                      THEN <<"emit image__render__done">> ELSE <<>>]
  ELSE [img |-> cur,
        steps |-> IF cur # Null
                    THEN (IF isScrollViewChild
                            THEN <<"emit image__render__done">>
                            ELSE <<"emit one__image__render__done">>)
                    ELSE <<>>]

\* the oldest or any later pending load completes
loadDone ==
  \E i \in 1..Len(pending), isScrollViewChild \in BOOLEAN :
    LET l == pending[i]
        D == onDone(l, img, isScrollViewChild)
    IN  /\ pending' = SubSeq(pending, 1, i - 1) \o SubSeq(pending, i + 1, Len(pending))
        /\ cached' = cached \cup {l.src}
        /\ img' = D.img
        /\ trace' = Op("onDone", D.steps)
        /\ UNCHANGED <<layoutVars, touchVars, poolVars, rectVars>>
        /\ UNCHANGED <<imgsrc, isDestroyed, hasSrcSetter>>

NextImage ==
  \/ \E src \in Sources : newImage(src)
  \/ insert
  \/ \E newValue \in Sources : setSrc(newValue)
  \/ destroySelf
  \/ loadDone

SpecImage == Init /\ [][NextImage]_vars

\* C14 (as claimed): a load that completes on a destroyed Image changes no
\* field of it (img stays null) and emits no event.
C14_DestroyedLoadDiscarded ==
  [][ (trace'.op = "onDone" /\ isDestroyed)
        => /\ img' = Null
           /\ UNCHANGED <<img, imgsrc, isDestroyed, hasSrcSetter>>
           /\ trace'.steps = <<>> ]_vars

(***************************************************************************)
(* Event handlers and passes (checked under SpecEvents: the lifecycle, the *)
(* scheduler, the 'repaint' listener and the touch handlers, the touches   *)
(* drawn from one point inside the tree and one with a zero coordinate).   *)
(***************************************************************************)
EventPoints ==
  {<<c, c>> : c \in {MaxCoord - 2}} \cup {<<0, MaxCoord - 2>>, <<MaxCoord - 2, 0>>}

inputEvent == \E eventName \in TouchEvents : touchEventHandlerAt(eventName, EventPoints)

NextEvents ==
  \/ Tick
  \/ init
  \/ layout
  \/ clear
  \/ onRepaint
  \/ setDirty
  \/ inputEvent

SpecEvents == Init /\ [][NextEvents]_vars

PassSteps ==
  {"reflow", "repaint", "computeLayout", "layoutChildren", "updateRealLayout",
   "renderChildren", "repaintChildren"}

\* C15: a touch handler or the 'repaint' listener runs no step of reflow() or
\* repaint(); a touch handler writes touchMsg only and the listener sets
\* isNeedRepaint only; a pass is run only by a tick or by layout().
C15_HandlersDeferPasses ==
  [][ /\ trace'.op \in TouchEvents \cup {"repaint-event"}
         => /\ \A step \in PassSteps : ~Has(trace'.steps, step)
            /\ UNCHANGED <<isDirty, hasEventHandler, children, renderContext,
                           viewport, hasViewPortSet, renderport, realLayoutBox,
                           state, bindCount>>
            /\ trace'.op \in TouchEvents => UNCHANGED isNeedRepaint
            /\ trace'.op = "repaint-event" => (isNeedRepaint' /\ UNCHANGED touchVars)
      /\ (\E step \in PassSteps : Has(trace'.steps, step))
         => trace'.op \in {"tick", "layout"} ]_vars

\* a touchend was delivered and made a click while both flags were pending
C15_Witness ==
  /\ trace.op = "touchend"
  /\ Len(trace.events) > 0
  /\ isDirty /\ isNeedRepaint
  /\ touchMsg.touchend.set

(***************************************************************************)
(* reflow(): errors and order (checked under Spec).                        *)
(***************************************************************************)
\* C16 (as claimed): a tick never runs reflow() on a Layout that has no root
\* child, so no tick ends in the throw of reflow's dereference of a missing
\* children[0].
C16_NoReflowWithoutRoot ==
  (trace.op = "tick" /\ Has(trace.steps, "reflow"))
    => (children # <<>> /\ ~Has(trace.steps, "throw"))

\* C17: a reflow() of a tree whose root element has no style width or no
\* style height logs an error after the solver ran, does not throw, leaves
\* renderport as it was, runs layoutChildren, updateRealLayout, the canvas
\* clear and renderChildren in that order, and clears isDirty.
C17_MissingRootSizeReported ==
  [][ (Has(trace'.steps, "reflow") /\ children' # <<>>
         /\ (TreeOf(children').styleW = 0 \/ TreeOf(children').styleH = 0))
        => /\ Before(trace'.steps, "computeLayout", "console.error")
           /\ Before(trace'.steps, "console.error", "layoutChildren")
           /\ Before(trace'.steps, "layoutChildren", "updateRealLayout")
           /\ Before(trace'.steps, "updateRealLayout", "clearCanvas")
           /\ Before(trace'.steps, "clearCanvas", "renderChildren")
           /\ Before(trace'.steps, "renderChildren", "isDirty=false")
           /\ ~Has(trace'.steps, "throw")
           /\ renderport' = renderport
           /\ ~isDirty' ]_vars

\* a tick found isDirty set on a tree without a root height and reflowed it
C17_Witness ==
  /\ trace.op = "tick" /\ trace.dirty
  /\ children # <<>> /\ TreeOf(children).styleH = 0
  /\ Before(trace.steps, "computeLayout", "console.error")
  /\ Has(trace.steps, "renderChildren")
  /\ ~isDirty /\ ~renderport.set

Count(seq, a) == Cardinality({i \in 1..Len(seq) : seq[i] = a})

InOrder(seq) ==
  /\ Count(seq, "computeLayout") = Count(seq, "reflow")
  /\ Before(seq, "reflow", "computeLayout")
  /\ Before(seq, "computeLayout", "layoutChildren")
  /\ Before(seq, "layoutChildren", "updateRealLayout")
  /\ Before(seq, "updateRealLayout", "clearCanvas")
  /\ Before(seq, "clearCanvas", "renderChildren")
  /\ Before(seq, "renderChildren", "isDirty=false")
  /\ ~Before(seq, "renderChildren", "clearCanvas")

\* C18 (as claimed): every reflow() makes one solver call, then runs
\* layoutChildren, updateRealLayout, the canvas clear and renderChildren in
\* that order, and then clears isDirty.
C18_FullPassInOrder ==
  Has(trace.steps, "reflow") => (InOrder(trace.steps) /\ ~isDirty)

\* C18 for a Layout that has a root child
C18_FullPassWithRoot ==
  (Has(trace.steps, "reflow") /\ children # <<>>)
    => (InOrder(trace.steps) /\ ~isDirty)

(***************************************************************************)
(* Touches with a zero coordinate (checked under SpecEvents).              *)
(***************************************************************************)
NonZero(touch) == touch.set => (touch.pageX # 0 /\ touch.pageY # 0)

\* C19: a touch event whose touch has pageX = 0 or pageY = 0 (a missing
\* coordinate included) runs no hit test, emits nothing and leaves touchMsg
\* and every Layout field as they were; touchMsg never holds such a touch.
C19_ZeroCoordinateDropped ==
  [][ /\ (trace'.op \in TouchEvents
            /\ (trace'.touch.pageX = 0 \/ trace'.touch.pageY = 0))
         => /\ trace'.events = <<>>
            /\ ~Has(trace'.steps, "getChildByPos")
            /\ UNCHANGED <<touchMsg, layoutVars>>
      /\ NonZero(touchMsg'.touchstart)
      /\ NonZero(touchMsg'.touchend) ]_vars

\* a touchend with pageY = 0 arrived next to the recorded touchstart, in
\* time for a click, and was dropped
C19_Witness ==
  /\ trace.op = "touchend"
  /\ trace.touch.pageX # 0 /\ trace.touch.pageY = 0
  /\ touchMsg.touchstart.set /\ ~touchMsg.touchend.set
  /\ isClick([touchstart |-> touchMsg.touchstart,
              touchend |-> [trace.touch EXCEPT !.set = TRUE]])
  /\ state = "RENDERED"
  /\ trace.events = <<>>

(***************************************************************************)
(* updateViewPort() and the real-pixel boxes (checked under Spec).         *)
(***************************************************************************)
\* the nodes a touch at point p hits, given the real boxes real
HitList(ch, real, p) == getChildByPos(TreeOf(ch), real, 0, p[1], p[2], <<>>)

\* C20: updateViewPort() writes the viewport record, the Layout's own
\* realLayoutBox origin and hasViewPortSet only: both flags, the real box of
\* every node of the tree and so the result of every hit test stay as they
\* were.
C20_ViewportKeepsBoxes ==
  [][ trace'.op = "updateViewPort"
        => /\ UNCHANGED <<isDirty, isNeedRepaint, hasEventHandler, children,
                          renderContext, renderport, state, bindCount, touchVars>>
           /\ hasViewPortSet' /\ viewport'.set
           /\ realLayoutBox'[0].realX = viewport'.x
           /\ realLayoutBox'[0].realY = viewport'.y
           /\ \A i \in Nodes \ {0} : realLayoutBox'[i] = realLayoutBox[i]
           /\ \A p \in Points :
                HitList(children', realLayoutBox', p) = HitList(children, realLayoutBox, p) ]_vars

\* the viewport of a rendered tree was changed, and some touch now hits other
\* nodes than it would with boxes computed for the new viewport
C20_Witness ==
  /\ trace.op = "updateViewPort"
  /\ state = "RENDERED" /\ children # <<>>
  /\ ~isDirty /\ ~isNeedRepaint
  /\ \E p \in Points :
       HitList(children, realLayoutBox, p)
         # HitList(children,
                   updateRealLayout(TreeOf(children), realLayoutBox[0],
                                    viewport, renderport), p)

====
